---- MODULE Spec2Model ----
(***************************************************************************)
(* Model of the pumpkin calculator: the USB keypad session (usbdevice.py), *)
(* the key indicator renderer (code.py, class Pumpkin) and the main event  *)
(* loop (code.py, main).                                                   *)
(*                                                                         *)
(* Two specifications share the state:                                     *)
(*   Spec    - main() of code.py driving the session and the display;      *)
(*   SpecApi - an arbitrary caller of the methods of USBDevice, in any     *)
(*             order.                                                      *)
(***************************************************************************)
EXTENDS Integers, Sequences, FiniteSets, TLC

(***************************************************************************)
(* Bounds of the model.                                                    *)
(***************************************************************************)
\* Largest number of non-zero bytes in a report the transport delivers.
MaxDown == 2
\* Number of distinct usb.core.Device objects core.find can hand out.
MaxDevices == 2

(***************************************************************************)
(* Program constants.                                                      *)
(***************************************************************************)
\* code.py:52-70, the scancodes (0x01, 0x2a, 0x2b, 0x54 .. 0x63 in decimal)
_ErrRollover == 1
_Bksp == 42
_Tab == 43
_Div == 84
_Mul == 85
_Sub == 86
_Add == 87
_Entr == 88
_K1 == 89
_K2 == 90
_K3 == 91
_K4 == 92
_K5 == 93
_K6 == 94
_K7 == 95
_K8 == 96
_K9 == 97
_K0 == 98
_Dot == 99
\* code.py:82-83, the size of the tile grid
_W == 15
_H == 8
\* code.py:157, the keypad's identity (0x04d9, 0xa02a)
_VID == 1241
_PID == 41002
\* code.py:205 / usbdevice.py:28, the length of the report buffer
max_packet_size == 8

\* self.device = None
None == << >>
\* The usb.core.Device objects core.find can return
Devices == {<< "Device", i >> : i \in 1..MaxDevices}

(***************************************************************************)
(* Pumpkin: the tile grid and the light/dark table.                        *)
(***************************************************************************)
Cells == (0..(_W - 1)) \X (0..(_H - 1))

tilemap ==
  << << 12, 12, 12, 12, 12, 12, 12, 12, 12, 12, 12, 12, 12, 12, 12 >>,
     << 12, 12, 12, 14, 15, 12, 12, 12, 12, 12, 14, 15, 12, 12, 12 >>,
     << 12, 22, 23, 24, 25, 26, 27, 12, 22, 23, 24, 25, 26, 27, 12 >>,
     << 12, 32, 33, 34, 35, 36, 37, 38, 32, 33, 34, 35, 36, 37, 38 >>,
     << 12, 62, 63, 64, 65, 66, 67, 68,102,103,104,105,106,107,108 >>,
     << 12, 72, 73, 74, 75, 76, 77, 78,112,113,114,115,116,117,118 >>,
     << 12,122,123,124,125,126,127,128,122,123,124,125,126,127,128 >>,
     << 12, 12,133,134,135,136,137, 12, 12,133,134,135,136,137, 12 >> >>

\* The grid as TileGrid(default_tile=12) makes it, the tilemap never copied
InitialGridDefaultTile == [c \in Cells |-> 12]

\* for (y, row) in enumerate(tilemap): for (x, sprite) in enumerate(row):
\*     tg[x, y] = sprite
InitialGrid == [c \in Cells |-> tilemap[c[2] + 1][c[1] + 1]]

\* The dictionary as the sequence of its (key, value) items. A value is
\* (y, x, light, dark), or a pair of such tuples for _ErrRollover and _Entr.
lightdarkmap ==
  << << _ErrRollover, << <<1, 6, 12, 16>>, <<1, 7, 12, 17>> >> >>,
     << _K0,  <<4,  2,  63, 43>> >>,
     << _K1,  <<4,  3,  64, 44>> >>,
     << _K2,  <<4,  4,  65, 45>> >>,
     << _K3,  <<4,  5,  66, 46>> >>,
     << _K4,  <<4,  6,  67, 47>> >>,
     << _Add, <<4,  9, 103, 83>> >>,
     << _Sub, <<4, 10, 104, 84>> >>,
     << _Mul, <<4, 11, 105, 85>> >>,
     << _Div, <<4, 12, 106, 86>> >>,
     << _Dot, <<4, 13, 107, 87>> >>,
     << _K5,  <<5,  2,  73, 53>> >>,
     << _K6,  <<5,  3,  74, 54>> >>,
     << _K7,  <<5,  4,  75, 55>> >>,
     << _K8,  <<5,  5,  76, 56>> >>,
     << _K9,  <<5,  6,  77, 57>> >>,
     << _Tab, <<5,  9, 113, 93>> >>,
     << _Bksp, <<5, 10, 114, 94>> >>,
     << _Entr, << <<5, 11, 115, 95>>, <<5, 12, 116, 96>> >> >> >>

\* k == scancodes[0]: only the first slot of the list is looked at
InListFirstSlot(k, scancodes) == Len(scancodes) > 0 /\ scancodes[1] = k

\* k in scancodes, scancodes a list
InList(k, scancodes) == \E i \in 1..Len(scancodes) : scancodes[i] = k

\* The display operations of one step, in the order issued:
\* <<"write", x, y, s>> for _tg[x, y] = s and <<"refresh">> for
\* display.refresh(). A renderer state is [tg |-> grid, ops |-> operations].

\* _tg[x, y] = s with no test of what the cell holds
WriteAlways(st, x, y, s) ==
  [tg |-> [st.tg EXCEPT ![<<x, y>>] = s],
   ops |-> Append(st.ops, <<"write", x, y, s>>)]

\* if _tg[x, y] != s: _tg[x, y] = s
WriteIfChanged(st, x, y, s) ==
  IF st.tg[<<x, y>>] # s
    THEN [tg |-> [st.tg EXCEPT ![<<x, y>>] = s],
          ops |-> Append(st.ops, <<"write", x, y, s>>)]
    ELSE st

\* The sprite is set for a pressed key only; a released key is left as is
SetSpriteNeverUnlit(st, k, t, scancodes) ==
  IF InList(k, scancodes) THEN WriteIfChanged(st, t[2], t[1], t[4]) ELSE st

\* (y, x, light, dark) = t; s = dark if k in scancodes else light; write
SetSprite(st, k, t, scancodes) ==
  LET y == t[1]
      x == t[2]
      light == t[3]
      dark == t[4]
      s == IF InList(k, scancodes) THEN dark ELSE light
  IN  WriteIfChanged(st, x, y, s)

\* The two-sprite branch with the second sprite forgotten.
SetKeyFirstSpriteOnly(st, k, v, scancodes) ==
  IF (k = _Entr) \/ (k = _ErrRollover)
    THEN SetSprite(st, k, v[1], scancodes)
    ELSE SetSprite(st, k, v, scancodes)

\* The body of the loop over _ldmap.items()
SetKey(st, k, v, scancodes) ==
  IF (k = _Entr) \/ (k = _ErrRollover)
    THEN SetSprite(SetSprite(st, k, v[1], scancodes), k, v[2], scancodes)
    ELSE SetSprite(st, k, v, scancodes)

RECURSIVE SetFrom(_, _, _)
\* for (k, v) in _ldmap.items(), from item i on
SetFrom(st, i, scancodes) ==
  IF i > Len(lightdarkmap)
    THEN st
    ELSE SetFrom(SetKey(st, lightdarkmap[i][1], lightdarkmap[i][2], scancodes),
                 i + 1, scancodes)

\* Pumpkin.set_lightdark(scancodes) on grid g: the grid it leaves and the
\* writes it issued.
set_lightdark(g, scancodes) == SetFrom([tg |-> g, ops |-> << >>], 1, scancodes)

\* main(): the names of the keys, by scancode
_NAMES ==
  (_ErrRollover :> "ErrRollover") @@ (_Bksp :> "Bksp") @@ (_Tab :> "Tab") @@
  (_Div :> "/") @@ (_Mul :> "*") @@ (_Sub :> "-") @@ (_Add :> "+") @@
  (_Entr :> "Entr") @@ (_K1 :> "1") @@ (_K2 :> "2") @@ (_K3 :> "3") @@
  (_K4 :> "4") @@ (_K5 :> "5") @@ (_K6 :> "6") @@ (_K7 :> "7") @@
  (_K8 :> "8") @@ (_K9 :> "9") @@ (_K0 :> "0") @@ (_Dot :> ".")

(***************************************************************************)
(* The transport's inputs.                                                 *)
(***************************************************************************)
\* A scancode that is in neither table: the least one
UnknownCode ==
  CHOOSE c \in 1..255 :
    /\ c \notin DOMAIN _NAMES
    /\ c \notin {lightdarkmap[i][1] : i \in 1..Len(lightdarkmap)}
    /\ \A d \in 1..(c - 1) :
         \/ d \in DOMAIN _NAMES
         \/ d \in {lightdarkmap[i][1] : i \in 1..Len(lightdarkmap)}

\* Byte values a report is drawn from: no key, the unknown scancode, the
\* two-cell Enter key and the one-cell "1" key.
ByteVals == {0, UnknownCode, _Entr, _K1}

\* The buffer indices (0-based) at which a report of the model may hold a
\* non-zero byte: the modifier byte, the reserved byte, the first key slot
\* and the last key slot.
KeyPositions == {0, 1, 2, max_packet_size - 1}

RECURSIVE BuffersOf(_, _)
\* The byte sequences of length n with at most k non-zero bytes, non-zero
\* at KeyPositions only
BuffersOf(n, k) ==
  IF n = 0
    THEN {<< >>}
    ELSE {Append(r, 0) : r \in BuffersOf(n - 1, k)}
           \cup (IF (k = 0) \/ ((n - 1) \notin KeyPositions)
                   THEN {}
                   ELSE UNION {{Append(r, v) : r \in BuffersOf(n - 1, k - 1)} :
                                 v \in ByteVals \ {0}})

\* Every buffer content a read can leave behind, within the bounds.
Reports == BuffersOf(max_packet_size, MaxDown)

\* What reading d.idVendor / d.idProduct can give: the value, 0, or None
\* (usbdevice.py:98-102).
NoId == -1
VidReads == {NoId, 0, _VID}
PidReads == {NoId, 0, _PID}

(***************************************************************************)
(* State.                                                                  *)
(***************************************************************************)
VARIABLES
  device,     \* USBDevice.device: None or the usb.core.Device it holds
  buf,        \* USBDevice.buf: the bytearray every read fills
  params,     \* USBDevice.vid, pid, interface, endpoint and timeout_ms
  gen,        \* the generator poll() made: "none", "created" (body not yet
              \* entered), "running" (suspended at a yield) or "finished"
  genDev,     \* the device whose read the generator cached as _devread
  pc,         \* main(): "disconnected", "idle", "polling" or "terminated"
  tg,         \* Pumpkin.tg, the tile grid
  codes,      \* main(): the list codes of the latest report
  last,       \* the latest call and what it gave its caller
  usbOps,     \* the transport calls of the latest step, in order; a read
              \* is <<"read", device, what it did>>
  busOps,     \* the display operations of the latest step, in order
  sleeps,     \* the sleep() calls of the latest step, in milliseconds
  lastFC,     \* history: what the transport did in the most recent
              \* find_and_configure ("never" before the first)
  disturbed,  \* history: a read error or reset() since that call
  rendered    \* history: the scancode set of the latest set_lightdark call

vars == << device, buf, params, gen, genDev, pc, tg, codes, last, usbOps, busOps,
           sleeps, lastFC, disturbed, rendered >>

(***************************************************************************)
(* USBDevice (usbdevice.py).                                               *)
(***************************************************************************)
\* What is_kernel_driver_active / detach_kernel_driver / set_configuration
\* can do in one _configure call.
ConfigOutcomes ==
  {"active_raises", "detach_raises", "set_configuration_raises",
   "detached_and_set", "set"}

ConfigCalls(cfg) ==
  CASE cfg = "active_raises" -> << <<"is_kernel_driver_active">> >>
    [] cfg = "detach_raises" ->
         << <<"is_kernel_driver_active">>, <<"detach_kernel_driver">> >>
    [] cfg = "set_configuration_raises" ->
         << <<"is_kernel_driver_active">>, <<"set_configuration">> >>
    [] cfg = "detached_and_set" ->
         << <<"is_kernel_driver_active">>, <<"detach_kernel_driver">>,
            <<"set_configuration">> >>
    [] cfg = "set" ->
         << <<"is_kernel_driver_active">>, <<"set_configuration">> >>

ConfigRaises(cfg) ==
  cfg \in {"active_raises", "detach_raises", "set_configuration_raises"}

\* A reset() that leaves the handle as it is
resetKeepsHandle(dev) == dev

\* USBDevice.reset(): self.device = None
reset(dev) == None

\* _configure with the handle stored before the try block and no reset in
\* the except clause.
ConfigureStoreFirst(dev, d, cfg) ==
  IF ConfigRaises(cfg)
    THEN [device |-> d, ret |-> "USBError", ops |-> ConfigCalls(cfg)]
    ELSE [device |-> d, ret |-> "ok", ops |-> ConfigCalls(cfg)]

\* USBDevice._configure(device) on a session holding dev
Configure(dev, d, cfg) ==
  IF ConfigRaises(cfg)
    THEN [device |-> reset(dev), ret |-> "USBError", ops |-> ConfigCalls(cfg)]
    ELSE [device |-> d, ret |-> "ok", ops |-> ConfigCalls(cfg)]

\* find_and_configure that returns True whenever a device was found, also
\* when configuring it failed.
FindAndConfigureSwallow(dev, found, cfg) ==
  IF found # None
    THEN LET c == Configure(dev, found, cfg)
         IN  [device |-> c.device, ret |-> "True",
              ops |-> << <<"find">> >> \o c.ops, sleeps |-> << 100 >>]
    ELSE [device |-> reset(dev), ret |-> "False",
          ops |-> << <<"find">> >>, sleeps |-> << 100 >>]

\* USBDevice.find_and_configure(): found is what core.find returned, cfg
\* what the configuration calls did. ret is "True", "False" or "USBError".
FindAndConfigure(dev, found, cfg) ==
  IF found # None
    THEN LET c == Configure(dev, found, cfg)
         IN  [device |-> c.device,
              ret |-> IF c.ret = "ok" THEN "True" ELSE "USBError",
              ops |-> << <<"find">> >> \o c.ops, sleeps |-> << 100 >>]
    ELSE [device |-> reset(dev), ret |-> "False",
          ops |-> << <<"find">> >>, sleeps |-> << 100 >>]

\* What one device.read can do: fill the buffer, time out, or fail.
ReadOutcomes ==
  [kind : {"report"}, data : Reports]
    \cup {[kind |-> "timeout", data |-> << >>],
          [kind |-> "error", data |-> << >>]}

\* One pass of the generator loop with USBTimeoutError handled by the
\* USBError clause (the clauses in the other order).
ReadTimeoutIsError(dev, b, rd, out) ==
  CASE out.kind = "report" ->
         [gen |-> "running", genDev |-> rd, device |-> dev, buf |-> out.data,
          ret |-> "buf", ops |-> << <<"read", rd, out.kind>> >>]
    [] OTHER ->
         [gen |-> "finished", genDev |-> rd, device |-> reset(dev), buf |-> b,
          ret |-> "USBError", ops |-> << <<"read", rd, out.kind>> >>]

\* One pass of the generator loop of poll(): the read on the cached device
\* rd, then yield _buf, yield None, or reset and raise.
Read(dev, b, rd, out) ==
  CASE out.kind = "report" ->
         [gen |-> "running", genDev |-> rd, device |-> dev, buf |-> out.data,
          ret |-> "buf", ops |-> << <<"read", rd, out.kind>> >>]
    [] out.kind = "timeout" ->
         [gen |-> "running", genDev |-> rd, device |-> dev, buf |-> b,
          ret |-> "None", ops |-> << <<"read", rd, out.kind>> >>]
    [] out.kind = "error" ->
         [gen |-> "finished", genDev |-> rd, device |-> reset(dev), buf |-> b,
          ret |-> "USBError", ops |-> << <<"read", rd, out.kind>> >>]

\* next() with the test of self.device left out of poll().
GenNextNoGuard(g, gd, dev, b, out) ==
  CASE g = "created" -> Read(dev, b, dev, out)
    [] g = "running" -> Read(dev, b, gd, out)
    [] OTHER ->
         [gen |-> "finished", genDev |-> gd, device |-> dev, buf |-> b,
          ret |-> "StopIteration", ops |-> << >>]

\* next() on the generator of poll(). A created generator enters the body:
\* it returns at once when self.device is None, else caches
\* self.device.read and reads. A running one resumes in the loop.
GenNext(g, gd, dev, b, out) ==
  CASE g = "created" /\ dev = None ->
         [gen |-> "finished", genDev |-> gd, device |-> dev, buf |-> b,
          ret |-> "StopIteration", ops |-> << >>]
    [] g = "created" /\ dev # None -> Read(dev, b, dev, out)
    [] g = "running" -> Read(dev, b, gd, out)
    [] OTHER ->
         [gen |-> "finished", genDev |-> gd, device |-> dev, buf |-> b,
          ret |-> "StopIteration", ops |-> << >>]

\* USBDevice.device_info_str(); vid and pid are what d.idVendor and
\* d.idProduct read as.
device_info_str(dev, vid, pid) ==
  IF dev = None
    THEN << "[Not connected]" >>
    ELSE IF (vid = NoId) \/ (pid = NoId)
           THEN << "[bad vid:pid]" >>
           ELSE << "Connected: %04x:%04x", vid, pid >>

(***************************************************************************)
(* main() of code.py: the body of the inner loop.                          *)
(***************************************************************************)
Min(a, b) == IF a < b THEN a ELSE b

\* Python's r[lo:hi] on a sequence (0-based, hi exclusive, clamped)
Slice(r, lo, hi) == SubSeq(r, lo + 1, Min(hi, Len(r)))

\* codes taken from the start of the report, modifier bytes included
DecodeWholeReport(report) == Slice(report, 0, 8)

\* codes = [int(b) for b in report[2:8]]
Decode(report) == Slice(report, 2, 8)

\* [... for k in codes if k != 0]: the codes the comprehension visits
NonZero(cs) == SelectSeq(cs, LAMBDA k : k # 0)

\* names = ' '.join([_NAMES[k] for k in codes if k != 0]); a key that is
\* not in _NAMES raises KeyError
Names(cs) ==
  LET ks == NonZero(cs)
  IN  IF \E i \in 1..Len(ks) : ks[i] \notin DOMAIN _NAMES
        THEN [raised |-> TRUE, value |-> << >>]
        ELSE [raised |-> FALSE, value |-> [i \in 1..Len(ks) |-> _NAMES[ks[i]]]]

\* The body of `for report in numpad.poll()` for a report that is not
\* None: decode, look up the names, print, set_lightdark, refresh. raised
\* tells that the KeyError of the name lookup left the body.
HandleReport(g, report) ==
  LET cs == Decode(report)
      nm == Names(cs)
      r == set_lightdark(g, cs)
  IN  IF nm.raised
        THEN [raised |-> TRUE, codes |-> cs, tg |-> g, ops |-> << >>,
              rendered |-> FALSE, names |-> nm.value]
        ELSE [raised |-> FALSE, codes |-> cs, tg |-> r.tg,
              ops |-> r.ops \o << <<"refresh">> >>,
              rendered |-> TRUE, names |-> nm.value]

\* The set of the elements of a list
SetOf(cs) == {cs[i] : i \in 1..Len(cs)}

\* History: what the transport did in a find_and_configure call
Attempt(found, cfg) ==
  CASE found = None -> "notfound"
    [] ConfigRaises(cfg) -> "cfgerror"
    [] OTHER -> "ok"

\* Before the first set_lightdark call there is no latest scancode set
NoRender == {-1}

(***************************************************************************)
(* Initial state: after Pumpkin(), USBDevice(...) and the first refresh.   *)
(***************************************************************************)
Init ==
  /\ device = None
  /\ buf = [i \in 1..max_packet_size |-> 0]
  /\ params = [vid |-> _VID, pid |-> _PID, interface |-> 0,
               endpoint |-> 129, timeout_ms |-> 300]
  /\ gen = "none"
  /\ genDev = None
  /\ pc = "disconnected"
  /\ tg = InitialGrid
  /\ codes = << >>
  /\ last = [op |-> "init", ret |-> "", val |-> << >>]
  /\ usbOps = << >>
  /\ busOps = << <<"refresh">> >>
  /\ sleeps = << 100 >>
  /\ lastFC = "never"
  /\ disturbed = FALSE
  /\ rendered = NoRender

(***************************************************************************)
(* Spec: the main event loop.                                              *)
(***************************************************************************)
\* The turn of the loop with an except clause that prints and raises again,
\* as the one of linux_pyusb_test.py does.
DiscoverReraise ==
  /\ pc = "disconnected"
  /\ \E found \in Devices \cup {None}, cfg \in ConfigOutcomes :
       /\ found = None => cfg = "set"
       /\ LET r == FindAndConfigure(device, found, cfg)
          IN  /\ device' = r.device
              /\ usbOps' = r.ops
              /\ last' = [op |-> "find_and_configure", ret |-> r.ret,
                          val |-> << >>]
              /\ lastFC' = Attempt(found, cfg)
              /\ disturbed' = FALSE
              /\ pc' = CASE r.ret = "True" -> "idle"
                         [] r.ret = "False" -> "disconnected"
                         [] OTHER -> "terminated"
              /\ sleeps' = IF r.ret = "False" THEN r.sleeps \o << 200 >>
                                              ELSE r.sleeps
  /\ busOps' = << >>
  /\ UNCHANGED << params, buf, gen, genDev, tg, codes, rendered >>

\* Top of `while True`: numpad.find_and_configure(), then the else branch
\* or the except clause when it did not return True.
Discover ==
  /\ pc = "disconnected"
  /\ \E found \in Devices \cup {None}, cfg \in ConfigOutcomes :
       /\ found = None => cfg = "set"
       /\ LET r == FindAndConfigure(device, found, cfg)
          IN  /\ device' = r.device
              /\ usbOps' = r.ops
              /\ last' = [op |-> "find_and_configure", ret |-> r.ret,
                          val |-> << >>]
              /\ lastFC' = Attempt(found, cfg)
              /\ disturbed' = FALSE
              /\ pc' = IF r.ret = "True" THEN "idle" ELSE "disconnected"
              /\ sleeps' = IF r.ret = "False" THEN r.sleeps \o << 200 >>
                                              ELSE r.sleeps
  /\ busOps' = << >>
  /\ UNCHANGED << params, buf, gen, genDev, tg, codes, rendered >>

\* The start of polling with the display cleared first: set_lightdark([])
\* and a refresh before the generator is made.
ConnectedIdleClearsDisplay ==
  /\ pc = "idle"
  /\ \E vid \in VidReads, pid \in PidReads :
       LET str == device_info_str(device, vid, pid)
       IN  last' = [op |-> "device_info_str", ret |-> "str", val |-> str]
  /\ sleeps' = << 500 >>
  /\ gen' = "created"
  /\ pc' = "polling"
  /\ usbOps' = << >>
  /\ \E r \in {set_lightdark(tg, << >>)} :
       /\ tg' = r.tg
       /\ busOps' = Append(r.ops, << "refresh" >>)
  /\ rendered' = {}
  /\ UNCHANGED << params, device, buf, genDev, codes, lastFC, disturbed >>

\* After find_and_configure returned True: sleep(0.5), print the device
\* info, and make the generator the for loop drains.
ConnectedIdle ==
  /\ pc = "idle"
  /\ \E vid \in VidReads, pid \in PidReads :
       LET str == device_info_str(device, vid, pid)
       IN  last' = [op |-> "device_info_str", ret |-> "str", val |-> str]
  /\ sleeps' = << 500 >>
  /\ gen' = "created"
  /\ pc' = "polling"
  /\ usbOps' = << >>
  /\ busOps' = << >>
  /\ UNCHANGED << params, device, buf, genDev, tg, codes, lastFC, disturbed,
                  rendered >>

\* One turn of `for report in numpad.poll()`: next() on the generator, then
\* the loop body, the end of the loop, or the except clause.
PollStep ==
  /\ pc = "polling"
  /\ \E out \in ReadOutcomes :
     \E n \in {GenNext(gen, genDev, device, buf, out)} :
     \E h \in {IF n.ret = "buf" THEN HandleReport(tg, n.buf)
                                ELSE HandleReport(tg, << >>)} :
       LET body == n.ret = "buf"
       IN  /\ device' = n.device
           /\ buf' = n.buf
           /\ gen' = n.gen
           /\ genDev' = n.genDev
           /\ usbOps' = n.ops
           /\ last' = [op |-> "next", ret |-> n.ret, val |-> << >>]
           /\ disturbed' = (disturbed \/ n.ret = "USBError")
           /\ codes' = IF body THEN h.codes ELSE codes
           /\ tg' = IF body THEN h.tg ELSE tg
           /\ busOps' = IF body THEN h.ops ELSE << >>
           /\ rendered' = IF body /\ h.rendered THEN SetOf(h.codes)
                                                   ELSE rendered
           /\ pc' =
                CASE body /\ h.raised -> "terminated"
                  [] n.ret \in {"USBError", "StopIteration"} -> "disconnected"
                  [] OTHER -> "polling"
  /\ sleeps' = << >>
  /\ UNCHANGED << params, lastFC >>

Next == Discover \/ ConnectedIdle \/ PollStep

Spec == Init /\ [][Next]_vars

\* The loop of main under fair scheduling: main is the only thread, and
\* every call it makes returns (core.find and the configuration calls return
\* or raise, sleep ends), so a discovery that can be made is made, and a
\* connected loop does start to poll. Nothing is assumed about the turns of
\* the polling loop itself.
FairSpec ==
  /\ Init
  /\ [][Next]_vars
  /\ WF_vars(Discover)
  /\ WF_vars(ConnectedIdle)

(***************************************************************************)
(* SpecApi: any caller of the methods of USBDevice.                        *)
(***************************************************************************)
\* The session never looks into the buffer: for its caller two contents
\* are enough, one that leaves the zero-filled buffer as it was and one that
\* changes it.
ApiReadOutcomes ==
  {[kind |-> "report", data |-> [i \in 1..max_packet_size |-> 0]],
   [kind |-> "report",
    data |-> [i \in 1..max_packet_size |-> IF i = 3 THEN _K1 ELSE 0]],
   [kind |-> "timeout", data |-> << >>],
   [kind |-> "error", data |-> << >>]}

\* numpad.find_and_configure()
ApiFindAndConfigure ==
  /\ \E found \in Devices \cup {None}, cfg \in ConfigOutcomes :
       /\ found = None => cfg = "set"
       /\ \E r \in {FindAndConfigure(device, found, cfg)} :
            /\ device' = r.device
            /\ usbOps' = r.ops
            /\ sleeps' = r.sleeps
            /\ last' = [op |-> "find_and_configure", ret |-> r.ret,
                        val |-> << >>]
            /\ lastFC' = Attempt(found, cfg)
  /\ disturbed' = FALSE
  /\ busOps' = << >>
  /\ UNCHANGED << params, buf, gen, genDev, pc, tg, codes, rendered >>

\* numpad.poll(): makes a generator; its body runs at the first next()
ApiPoll ==
  /\ gen' = "created"
  /\ genDev' = None
  /\ last' = [op |-> "poll", ret |-> "generator", val |-> << >>]
  /\ usbOps' = << >>
  /\ busOps' = << >>
  /\ sleeps' = << >>
  /\ UNCHANGED << params, device, buf, pc, tg, codes, lastFC, disturbed,
                  rendered >>

\* next() on the generator the caller holds
ApiNext ==
  /\ gen # "none"
  /\ \E out \in ApiReadOutcomes :
     \E n \in {GenNext(gen, genDev, device, buf, out)} :
       /\ device' = n.device
       /\ buf' = n.buf
       /\ gen' = n.gen
       /\ genDev' = n.genDev
       /\ usbOps' = n.ops
       /\ last' = [op |-> "next", ret |-> n.ret, val |-> << >>]
       /\ disturbed' = (disturbed \/ n.ret = "USBError")
  /\ busOps' = << >>
  /\ sleeps' = << >>
  /\ UNCHANGED << params, pc, tg, codes, lastFC, rendered >>

\* numpad.reset()
ApiReset ==
  /\ device' = reset(device)
  /\ disturbed' = TRUE
  /\ last' = [op |-> "reset", ret |-> "None", val |-> << >>]
  /\ usbOps' = << >>
  /\ busOps' = << >>
  /\ sleeps' = << >>
  /\ UNCHANGED << params, buf, gen, genDev, pc, tg, codes, lastFC, rendered >>

\* numpad.device_info_str()
ApiDeviceInfoStr ==
  /\ \E vid \in VidReads, pid \in PidReads :
       last' = [op |-> "device_info_str", ret |-> "str",
                val |-> device_info_str(device, vid, pid)]
  /\ usbOps' = << >>
  /\ busOps' = << >>
  /\ sleeps' = << >>
  /\ UNCHANGED << params, device, buf, gen, genDev, pc, tg, codes, lastFC,
                  disturbed, rendered >>

NextApi ==
  \/ ApiFindAndConfigure
  \/ ApiPoll
  \/ ApiNext
  \/ ApiReset
  \/ ApiDeviceInfoStr

SpecApi == Init /\ [][NextApi]_vars

(***************************************************************************)
(* SpecLinux: main() of linux_pyusb_test.py, the desktop (PyUSB) variant   *)
(* of the session and the loop. It has no display and no buffer field: a   *)
(* read returns a new array, kept here in last.val.                        *)
(***************************************************************************)
\* What the configuration calls of find_and_connect can do: the kernel
\* driver is active or not, and each call returns or raises USBError.
LinuxConfigOutcomes ==
  {"active_raises", "detach_raises", "set_configuration_raises",
   "already_set", "detached_already_set", "set", "detached_and_set"}

LinuxConfigCalls(cfg) ==
  CASE cfg = "active_raises" -> << <<"is_kernel_driver_active">> >>
    [] cfg = "detach_raises" ->
         << <<"is_kernel_driver_active">>, <<"detach_kernel_driver">> >>
    [] cfg = "set_configuration_raises" ->
         << <<"is_kernel_driver_active">>, <<"get_active_configuration">>,
            <<"set_configuration">> >>
    [] cfg = "already_set" ->
         << <<"is_kernel_driver_active">>, <<"get_active_configuration">> >>
    [] cfg = "detached_already_set" ->
         << <<"is_kernel_driver_active">>, <<"detach_kernel_driver">>,
            <<"get_active_configuration">> >>
    [] cfg = "set" ->
         << <<"is_kernel_driver_active">>, <<"get_active_configuration">>,
            <<"set_configuration">> >>
    [] cfg = "detached_and_set" ->
         << <<"is_kernel_driver_active">>, <<"detach_kernel_driver">>,
            <<"get_active_configuration">>, <<"set_configuration">> >>

\* The calls whose USBError nothing in find_and_connect catches
LinuxConfigRaises(cfg) ==
  cfg \in {"active_raises", "detach_raises", "set_configuration_raises"}

\* USBDevice.find_and_connect() on a session holding dev: self.device is
\* assigned as soon as a device was found, before it is configured.
find_and_connect(dev, found, cfg) ==
  IF found = None
    THEN [device |-> dev, ret |-> "False", ops |-> << <<"find">> >>,
          sleeps |-> << >>]
    ELSE [device |-> found,
          ret |-> IF LinuxConfigRaises(cfg) THEN "USBError" ELSE "True",
          ops |-> << <<"find">> >> \o LinuxConfigCalls(cfg),
          sleeps |-> << 1000 >>]

\* One pass of the loop of poll(): sleep(0.001), then self.device.read
\* yields the array read, a timeout yields None, any other USBError leaves
\* the generator. Nothing resets the handle.
LinuxRead(dev, out) ==
  CASE out.kind = "report" ->
         [gen |-> "running", ret |-> "event", val |-> out.data,
          ops |-> << <<"read", dev, out.kind>> >>]
    [] out.kind = "timeout" ->
         [gen |-> "running", ret |-> "None", val |-> << >>,
          ops |-> << <<"read", dev, out.kind>> >>]
    [] out.kind = "error" ->
         [gen |-> "finished", ret |-> "USBError", val |-> << >>,
          ops |-> << <<"read", dev, out.kind>> >>]

\* Before the first turn of the loop: no session yet, no display at all.
InitLinux ==
  /\ device = None
  /\ buf = << >>
  /\ params = [vid |-> _VID, pid |-> _PID, interface |-> 0, endpoint |-> 129,
               timeout_ms |-> 5, max_packet_size |-> 9]
  /\ gen = "none"
  /\ genDev = None
  /\ pc = "disconnected"
  /\ tg = << >>
  /\ codes = << >>
  /\ last = [op |-> "init", ret |-> "", val |-> << >>]
  /\ usbOps = << >>
  /\ busOps = << >>
  /\ sleeps = << >>
  /\ lastFC = "never"
  /\ disturbed = FALSE
  /\ rendered = NoRender

\* One turn of `while True`, up to the for statement: a new USBDevice (its
\* handle None), find_and_connect, then sleep(0.5) and continue when it
\* returned False, the generator of poll() when it returned True, and the
\* except clause, which prints and raises again, when it raised.
LinuxDiscover ==
  /\ pc = "disconnected"
  /\ \E found \in Devices \cup {None}, cfg \in LinuxConfigOutcomes :
       /\ found = None => cfg = "set"
       /\ \E r \in {find_and_connect(None, found, cfg)} :
            /\ device' = r.device
            /\ usbOps' = r.ops
            /\ last' = [op |-> "find_and_connect", ret |-> r.ret,
                        val |-> << >>]
            /\ lastFC' = CASE found = None -> "notfound"
                           [] LinuxConfigRaises(cfg) -> "cfgerror"
                           [] OTHER -> "ok"
            /\ sleeps' = IF r.ret = "False" THEN r.sleeps \o << 500 >>
                                            ELSE r.sleeps
            /\ gen' = IF r.ret = "True" THEN "created" ELSE "none"
            /\ pc' = CASE r.ret = "True" -> "polling"
                       [] r.ret = "False" -> "disconnected"
                       [] OTHER -> "terminated"
  /\ genDev' = None
  /\ disturbed' = FALSE
  /\ UNCHANGED << buf, params, tg, codes, busOps, rendered >>

\* One turn of `for event in numpad.poll()`: next() on the generator, then
\* the body (a print), or the except clause, which raises again.
LinuxPollStep ==
  /\ pc = "polling"
  /\ \E out \in ReadOutcomes :
     \E n \in {LinuxRead(device, out)} :
       /\ gen' = n.gen
       /\ usbOps' = n.ops
       /\ last' = [op |-> "next", ret |-> n.ret, val |-> n.val]
       /\ disturbed' = (disturbed \/ n.ret = "USBError")
       /\ pc' = IF n.ret = "USBError" THEN "terminated" ELSE "polling"
  /\ genDev' = device
  /\ sleeps' = << 1 >>
  /\ UNCHANGED << device, buf, params, tg, codes, busOps, lastFC, rendered >>

NextLinux == LinuxDiscover \/ LinuxPollStep

SpecLinux == InitLinux /\ [][NextLinux]_vars

(***************************************************************************)
(* Vocabulary of the properties.                                           *)
(***************************************************************************)
\* The scancodes of the key table
Keys == {lightdarkmap[i][1] : i \in 1..Len(lightdarkmap)}

\* The (y, x, unlit, lit) tuples of key k
TuplesOf(k) ==
  LET i == CHOOSE j \in 1..Len(lightdarkmap) : lightdarkmap[j][1] = k
      v == lightdarkmap[i][2]
  IN  IF k \in {_Entr, _ErrRollover} THEN {v[1], v[2]} ELSE {v}

\* Every cell of key k shows its lit (pressed) sprite / its unlit sprite
Lit(g, k) == \A t \in TuplesOf(k) : g[<<t[2], t[1]>>] = t[4]
Unlit(g, k) == \A t \in TuplesOf(k) : g[<<t[2], t[1]>>] = t[3]

\* The non-zero bytes at indices 2..end of buffer b (indices from 0)
HeldScancodes(b) == {b[i] : i \in 3..Len(b)} \ {0}

Writes(ops) == {i \in 1..Len(ops) : ops[i][1] = "write"}
Refreshes(ops) == {i \in 1..Len(ops) : ops[i][1] = "refresh"}
ReadsOf(ops) == {i \in 1..Len(ops) : ops[i][1] = "read"}

\* The latest step of the loop took a report from the generator
GotReport == last.op = "next" /\ last.ret = "buf"
\* The latest step of the loop took an absent value (a timeout)
GotTimeout == last.op = "next" /\ last.ret = "None"

(***************************************************************************)
(* C1. In main(), whatever the transport does (not found, configuration    *)
(* error, timeout, report, read error), the loop never exits and the       *)
(* process never terminates; after a transport error the loop is back in   *)
(* Disconnected, about to call find_and_configure again.                   *)
(* The code falls short of this: see C2_UnknownScancodeIsHarmless.         *)
(***************************************************************************)
C1_LoopNeverExits ==
  /\ pc # "terminated"
  /\ last.ret = "USBError" => pc = "disconnected"

(***************************************************************************)
(* C2. A report whose bytes 2..end hold a non-zero scancode that is in no  *)
(* lookup table is processed to the end: the known keys in it are          *)
(* rendered, the refresh is issued, and the loop stays in                  *)
(* Connected-Polling.                                                      *)
(***************************************************************************)
C2_UnknownScancodeIsHarmless ==
  (GotReport /\ \E c \in HeldScancodes(buf) : c \notin DOMAIN _NAMES)
    => /\ pc = "polling"
       /\ \A k \in Keys : IF k \in HeldScancodes(buf) THEN Lit(tg, k)
                                                       ELSE Unlit(tg, k)
       /\ Refreshes(busOps) # {}

(***************************************************************************)
(* C3. Whenever find_and_configure raises, or next() on the poll generator *)
(* raises (a read failed with an error that is no timeout), the handle is  *)
(* already None when the caller sees the error, and device_info_str gives  *)
(* the not-connected sentinel whatever the identifiers read as.            *)
(***************************************************************************)
C3_RaisedMeansDisconnected ==
  last.ret = "USBError"
    => /\ device = None
       /\ \A vid \in VidReads, pid \in PidReads :
            device_info_str(device, vid, pid) = << "[Not connected]" >>

\* A read failed in a generator that was draining a connected session.
C3_Witness ==
  /\ last.op = "next"
  /\ last.ret = "USBError"
  /\ genDev # None
  /\ usbOps = << <<"read", genDev, "error">> >>
  /\ device = None

(***************************************************************************)
(* C4. The handle starts None; it is not None only if the most recent      *)
(* find_and_configure found the device and configured it without error     *)
(* and no read error or reset() came since; find_and_configure returns     *)
(* True exactly when it leaves the handle not None; not found leaves the   *)
(* handle None and returns False.                                          *)
(***************************************************************************)
C4_HandleLifecycle ==
  /\ last.op = "init" => device = None
  /\ device # None => (lastFC = "ok" /\ ~disturbed)
  /\ last.op = "find_and_configure"
       => /\ (last.ret = "True") <=> (device # None)
          /\ lastFC = "notfound" => (device = None /\ last.ret = "False")
          /\ lastFC = "ok" => device # None

\* find_and_configure has just connected a session that an earlier error
\* had disconnected.
C4_Witness ==
  /\ last.op = "find_and_configure"
  /\ last.ret = "True"
  /\ device # None
  /\ gen = "finished"
  /\ genDev # None

(***************************************************************************)
(* C5. A read that times out is no error: next() gives None, the handle    *)
(* stays as it was (not None) and the loop stays in Connected-Polling. The *)
(* loop leaves Connected-Idle or Connected-Polling for Disconnected only   *)
(* in a step whose read failed with an error that is no timeout.           *)
(***************************************************************************)
C5_TimeoutsNeverReconnect ==
  [][ /\ (\E i \in ReadsOf(usbOps') : usbOps'[i][3] = "timeout")
          => /\ last'.ret = "None"
             /\ device' = device
             /\ device' # None
             /\ pc' = "polling"
      /\ (pc \in {"idle", "polling"} /\ pc' = "disconnected")
          => \E i \in ReadsOf(usbOps') : usbOps'[i][3] = "error" ]_vars

\* Two timeouts in a row: the step before already left the loop waiting
\* (no report was ever taken), and the latest read timed out again.
C5_Witness ==
  /\ pc = "polling"
  /\ gen = "running"
  /\ GotTimeout
  /\ usbOps = << <<"read", device, "timeout">> >>
  /\ device # None
  /\ codes = << >>

C7_CellsShowPressedKeys ==
  /\ rendered # NoRender
       => \A k \in Keys : IF k \in rendered THEN Lit(tg, k) ELSE Unlit(tg, k)
  /\ \A k \in {_Entr, _ErrRollover} : Lit(tg, k) \/ Unlit(tg, k)

\* Enter is down and "1" is not, and the grid shows it.
C7_Witness ==
  /\ GotReport
  /\ rendered # NoRender
  /\ _Entr \in rendered
  /\ _K1 \notin rendered
  /\ Lit(tg, _Entr)
  /\ Unlit(tg, _K1)

(***************************************************************************)
(* C8. set_lightdark never writes to a cell the sprite the cell already    *)
(* holds; a call with the same scancode set as the call before it writes   *)
(* no tile at all.                                                         *)
(***************************************************************************)
C8_WriteAvoidance ==
  [][ /\ \A i \in Writes(busOps') :
           tg[<<busOps'[i][2], busOps'[i][3]>>] # busOps'[i][4]
      /\ (GotReport' /\ pc' = "polling" /\ rendered' = rendered)
           => Writes(busOps') = {} ]_vars

\* A report with Enter down was rendered without a single write: the grid
\* already showed Enter lit.
C8_Witness ==
  /\ GotReport
  /\ pc = "polling"
  /\ _Entr \in rendered
  /\ Lit(tg, _Entr)
  /\ busOps = << <<"refresh">> >>

(***************************************************************************)
(* C9. For every report buffer the scancodes the loop takes as pressed     *)
(* are exactly the non-zero bytes at indices 2..end: bytes 0 and 1 never   *)
(* count, zero bytes never count; and the keys the render lights are       *)
(* exactly those.                                                          *)
(***************************************************************************)
C9_DecodeSkipsTwoBytes ==
  GotReport
    => /\ SetOf(NonZero(codes)) = HeldScancodes(buf)
       /\ pc = "polling"
            => \A k \in Keys : Lit(tg, k) <=> (k \in HeldScancodes(buf))

\* Byte 0 holds Enter's scancode, the last byte holds "1": only "1" is lit.
C9_Witness ==
  /\ GotReport
  /\ pc = "polling"
  /\ buf[1] = _Entr
  /\ buf[max_packet_size] = _K1
  /\ Lit(tg, _K1)
  /\ Unlit(tg, _Entr)

(***************************************************************************)
(* C10. Every report the loop takes causes exactly one refresh, issued     *)
(* after all its tile writes; a timeout causes no tile write and no        *)
(* refresh.                                                                *)
(* The code falls short of this: see C2_UnknownScancodeIsHarmless.         *)
(***************************************************************************)
C10_OneRefreshPerReport ==
  /\ GotReport => /\ Cardinality(Refreshes(busOps)) = 1
                  /\ busOps[Len(busOps)] = << "refresh" >>
  /\ GotTimeout => busOps = << >>

(***************************************************************************)
(* C11. A discovery that finds no device issues exactly one delay, the     *)
(* 0.2 s backoff of main (find_and_configure adds no delay of its own when  *)
(* nothing was found), and leaves the loop in Disconnected; N failed       *)
(* discoveries in a row therefore issue N delays.                          *)
(***************************************************************************)
C11_OneDelayPerFailedDiscovery ==
  (last.op = "find_and_configure" /\ lastFC = "notfound")
    => /\ pc = "disconnected"
       /\ sleeps = << 200 >>

(***************************************************************************)
(* C12. After every failed find_and_configure, whether it returned False   *)
(* or raised USBError from the configuration, the loop is in Disconnected  *)
(* and has waited the 0.2 s backoff before its next discovery.             *)
(***************************************************************************)
C12_BackoffAfterEveryFailure ==
  (last.op = "find_and_configure" /\ last.ret # "True")
    => /\ pc = "disconnected"
       /\ \E i \in 1..Len(sleeps) : sleeps[i] = 200

(***************************************************************************)
(* C13. device_info_str gives "[Not connected]" when the handle is None,   *)
(* "[bad vid:pid]" when the handle is not None and the device reports the  *)
(* identifiers 0000:0000, and the "Connected" summary only otherwise: a    *)
(* device with identifiers 0000:0000 is never reported as "Connected".     *)
(***************************************************************************)
C13_BadIdentityIsReported ==
  last.op = "device_info_str"
    => /\ device = None <=> last.val = << "[Not connected]" >>
       /\ Len(last.val) = 3 => ~(last.val[2] = 0 /\ last.val[3] = 0)

(***************************************************************************)
(* Vocabulary of the renderer properties.                                  *)
(***************************************************************************)
\* The cells of key k, as (x, y)
CellsOf(k) == {<< t[2], t[1] >> : t \in TuplesOf(k)}
\* The cells of all keys of the table
KeyCells == UNION {CellsOf(k) : k \in Keys}
\* The cells the writes of ops went to
Written(ops) == {<< ops[i][2], ops[i][3] >> : i \in Writes(ops)}
RECURSIVE WithCells(_, _, _)
\* Grid g with the cells of S as they are in grid h
WithCells(g, h, S) ==
  IF S = {}
    THEN g
    ELSE LET c == CHOOSE d \in S : TRUE
         IN  WithCells([g EXCEPT ![c] = h[c]], h, S \ {c})

\* The loop rendered a report in the latest step
Rendered == GotReport /\ pc = "polling"

(***************************************************************************)
(* C14. Until the first render the grid is the one built at startup, and   *)
(* it holds the unlit sprite in every cell of every key. The first render  *)
(* of a report that holds exactly one key K of the table writes exactly    *)
(* the cells of K, each with its lit sprite, changes no other cell, and is *)
(* followed by exactly one refresh.                                        *)
(***************************************************************************)
C14_FirstRender ==
  [][ /\ rendered = NoRender
           => /\ tg = InitialGrid
              /\ \A k \in Keys : Unlit(tg, k)
      /\ \A K \in Keys :
           (rendered = NoRender /\ Rendered' /\ HeldScancodes(buf') = {K})
             => /\ {busOps'[i] : i \in Writes(busOps')}
                     = {<< "write", t[2], t[1], t[4] >> : t \in TuplesOf(K)}
                /\ Cardinality(Writes(busOps')) = Cardinality(CellsOf(K))
                /\ Refreshes(busOps') = {Len(busOps')}
                /\ Lit(tg', K)
                /\ \A c \in Cells \ CellsOf(K) : tg'[c] = tg[c] ]_vars

\* The "1" key alone was rendered on the startup grid: one write, of its
\* lit sprite 44 to cell (3, 4), then the refresh.
C14_Witness ==
  /\ Rendered
  /\ HeldScancodes(buf) = {_K1}
  /\ busOps = << << "write", 3, 4, 44 >>, << "refresh" >> >>
  /\ tg = [InitialGrid EXCEPT ![<< 3, 4 >>] = 44]

(***************************************************************************)
(* C15. A render that follows a render writes exactly the cells of the     *)
(* keys that are in one of the two scancode sets and not in the other, and *)
(* changes no other cell; a cell of no key of the table is never written.  *)
(***************************************************************************)
C15_WritesAreTheDifference ==
  [][ /\ (rendered # NoRender /\ Rendered')
           => \E D \in {{k \in Keys : (k \in rendered) # (k \in rendered')}} :
              \E W \in {UNION {CellsOf(k) : k \in D}} :
                /\ Written(busOps') = W
                /\ \A c \in W : tg'[c] # tg[c]
      /\ Written(busOps') \subseteq KeyCells
      /\ tg' = WithCells(tg, tg', Written(busOps')) ]_vars

\* Enter was down and is released: its two cells are written unlit, and
\* nothing else.
C15_Witness ==
  /\ Rendered
  /\ _Entr \notin rendered
  /\ busOps = << << "write", 11, 5, 115 >>, << "write", 12, 5, 116 >>,
                 << "refresh" >> >>

\* The pairs of different scancode lists main can decode from a report that
\* hold the same set of non-zero scancodes
SameKeysLists ==
  {p \in {Decode(r) : r \in Reports} \X {Decode(r) : r \in Reports} :
     /\ p[1] # p[2]
     /\ SetOf(NonZero(p[1])) = SetOf(NonZero(p[2]))}

(***************************************************************************)
(* C16. On every grid the display can hold, set_lightdark gives the same   *)
(* writes and the same grid for any two reports whose bytes 2..end hold    *)
(* the same set of non-zero scancodes, whatever the slots, the order and   *)
(* the repetitions.                                                        *)
(***************************************************************************)
C16_OrderIndependent ==
  \A p \in SameKeysLists : set_lightdark(tg, p[1]) = set_lightdark(tg, p[2])

\* "1" was rendered from the last slot of a report; a report with "1" in
\* the first slot (and one with "1" in both) renders alike.
C16_Witness ==
  /\ Rendered
  /\ Len(codes) = 6
  /\ codes[1] = 0
  /\ codes[6] = _K1
  /\ Lit(tg, _K1)
  /\ \E p \in SameKeysLists : p[1] = codes /\ p[2][1] = _K1 /\ p[2][6] = 0
  /\ \E p \in SameKeysLists : p[1] = codes /\ p[2][1] = _K1 /\ p[2][6] = _K1

(***************************************************************************)
(* C18. reset() always leaves the handle None and changes nothing else of  *)
(* the session: vid, pid, interface, endpoint, timeout_ms and the buffer   *)
(* stay as they were. Called on a session whose handle is None already it  *)
(* changes no field at all, so any number of calls in a row leave what one *)
(* call leaves.                                                            *)
(***************************************************************************)
C18_ResetIsIdempotent ==
  [][ last'.op = "reset"
        => /\ device' = None
           /\ params' = params
           /\ buf' = buf
           /\ device = None => device' = device
           /\ reset(reset(device)) = reset(device) ]_vars

\* reset() was called on a session that held no handle (nothing was found by
\* the latest find_and_configure), with a buffer a read had filled.
C18_Witness ==
  /\ last.op = "reset"
  /\ lastFC = "notfound"
  /\ device = None
  /\ buf[3] = _K1

(***************************************************************************)
(* C19. poll() reads only while the session holds a handle: when reset()   *)
(* is called between two values of a sequence that is being drained, the   *)
(* next() after it issues no read on the old device and gives no value, it *)
(* ends the sequence.                                                      *)
(***************************************************************************)
C19_ResetStopsPolling ==
  [][ (gen = "running" /\ last.op = "reset" /\ last'.op = "next")
        => /\ ReadsOf(usbOps') = {}
           /\ last'.ret = "StopIteration" ]_vars

(***************************************************************************)
(* C20. The desktop variant keeps the recovery contract of the             *)
(* microcontroller variant: a USBError from the configuration or from a    *)
(* read leaves its loop in Disconnected, the process does not end; and its *)
(* session holds a handle only for a device whose configuration went       *)
(* through.                                                                *)
(***************************************************************************)
C20_DesktopKeepsRecoveryContract ==
  /\ pc # "terminated"
  /\ last.ret = "USBError" => pc = "disconnected"
  /\ device # None => lastFC = "ok"

\* The latest step of the loop met a transport failure: nothing found, a
\* USBError from the configuration, or a USBError from a read
FailedNow ==
  \/ last.op = "find_and_configure" /\ last.ret # "True"
  \/ last.op = "next" /\ last.ret = "USBError"

(***************************************************************************)
(* C17. Under fair scheduling of the loop, unless transport failures go on *)
(* for ever, the loop gets from every failure, and from every state in     *)
(* which it is disconnected or has just connected, to polling: once the    *)
(* keypad is there and the configuration and the reads stop failing, the   *)
(* loop polls again, whatever not-found results, configuration errors and  *)
(* read errors came before.                                                *)
(***************************************************************************)
C17_RecoveryIsLive ==
  \/ []<><<FailedNow'>>_vars
  \/ (FailedNow \/ pc \in {"disconnected", "idle"}) ~> (pc = "polling")

\* The loop is about to poll on a new connection, after a connection on
\* which it had rendered a report was lost to a read error.
C17_Witness ==
  /\ pc = "polling"
  /\ gen = "created"
  /\ lastFC = "ok"
  /\ rendered # NoRender

(***************************************************************************)
(* C21. A disconnect leaves the display as it is: the step in which a read *)
(* raises USBError, every find_and_configure, failed or not, and the start *)
(* of polling on the new connection write no tile, issue no refresh and    *)
(* leave the grid unchanged; so from the error until the first report of   *)
(* the new connection is rendered, the keys of the last rendered report    *)
(* are still lit.                                                          *)
(***************************************************************************)
C21_DisconnectLeavesDisplay ==
  [][ /\ (FailedNow' \/ last'.op \in {"find_and_configure", "device_info_str"})
           => /\ Writes(busOps') = {}
              /\ Refreshes(busOps') = {}
              /\ tg' = tg
              /\ rendered' = rendered
      /\ (rendered' # NoRender
            /\ (pc' \in {"disconnected", "idle"}
                  \/ (pc' = "polling" /\ gen' = "created")))
           => \A k \in Keys : k \in rendered' <=> Lit(tg', k) ]_vars

\* The loop has reconnected and is about to poll; Enter, down in the last
\* report of the lost connection, is still lit, and the step touched no tile.
C21_Witness ==
  /\ pc = "polling"
  /\ gen = "created"
  /\ last.op = "device_info_str"
  /\ disturbed = FALSE
  /\ _Entr \in rendered
  /\ Lit(tg, _Entr)
  /\ busOps = << >>

====
